---- MODULE Spec2Model ----
(***************************************************************************)
(* Model of drivers/pps/generators/pps_gen_gpio.c, the GPIO pulse-per-     *)
(* second generator: module init, probe with calibration, the hrtimer      *)
(* callback and remove.                                                    *)
(*                                                                         *)
(* Times are nanoseconds.  `long' is taken as 64 bits wide, so no value    *)
(* of the model comes near its range; products that would leave TLC's      *)
(* integer range are computed by quotient and remainder and have the       *)
(* value the C expression has.  A ktime_t is held as the pair              *)
(* (quotient, remainder) of its nanosecond count by NSEC_PER_SEC.          *)
(*                                                                         *)
(* The wall clock is an oracle: every GETNSTIMEOFDAY() returns one of a    *)
(* few readings chosen around the thresholds the code compares it with,    *)
(* including readings that lie before an earlier one (the wall clock can   *)
(* be stepped).                                                            *)
(***************************************************************************)
EXTENDS Integers, Sequences, FiniteSets, TLC

\* ---------------------------------------------------------------- constants

NSEC_PER_SEC == 1000000000
NSEC_PER_USEC == 1000
GPIO_PULSE_WIDTH_DEF_NS == 30 * NSEC_PER_USEC
GPIO_PULSE_WIDTH_MAX_NS == 100 * NSEC_PER_USEC
SAFETY_INTERVAL_NS == 10 * NSEC_PER_USEC
PPS_GEN_CALIBRATE_LOOPS == 100
PPS_GPIO_LOW == 0
PPS_GPIO_HIGH == 1

\* ------------------------------------------------------------------- bounds

\* timer firings explored, over all devices
MaxFirings == 3
\* calls of the remove handler explored per device
MaxRemoveCalls == 2

\* the devices a device tree can describe
Channels == {1, 2}

\* values of the module parameter "width"
PulseWidths ==
  {0, GPIO_PULSE_WIDTH_DEF_NS, GPIO_PULSE_WIDTH_MAX_NS, GPIO_PULSE_WIDTH_MAX_NS + 1}

\* -------------------------------------------------------------- arithmetic

\* C's integer division, which truncates toward zero (b > 0)
CDiv(a, b) == IF a >= 0 THEN a \div b ELSE -((-a) \div b)

\* (3 * a + l) / 4 in C, by quotient and remainder of a and l by 4
ThreeQuarterMean(a, l) ==
  LET qa == a \div 4
      ra == a % 4
      ql == l \div 4
      rl == l % 4
      fl == 3 * qa + ql + ((3 * ra + rl) \div 4)
      rem == (3 * ra + rl) % 4
  IN IF fl < 0 /\ rem # 0 THEN fl + 1 ELSE fl

\* ------------------------------------------------------------------- times

Timespec(s, n) == [tv_sec |-> s, tv_nsec |-> n]

\* set_normalized_timespec64(): carry whole seconds out of the nanoseconds
SetNormalized(s, n) == Timespec(s + (n \div NSEC_PER_SEC), n % NSEC_PER_SEC)

TIMESPEC_SUB(a, b) == SetNormalized(a.tv_sec - b.tv_sec, a.tv_nsec - b.tv_nsec)

TIMESPEC_TO_NS(ts) == ts.tv_sec * NSEC_PER_SEC + ts.tv_nsec

\* ktime_set(secs, nsecs) = secs * NSEC_PER_SEC + nsecs
ktime_set(secs, nsecs) ==
  [q |-> secs + (nsecs \div NSEC_PER_SEC), r |-> nsecs % NSEC_PER_SEC]

KTIME_TO_TIMESPEC(kt) == Timespec(kt.q, kt.r)

\* a clock reading d nanoseconds after ts
TsAddNs(ts, d) == SetNormalized(ts.tv_sec, ts.tv_nsec + d)

TsValid(ts) == ts.tv_nsec >= 0 /\ ts.tv_nsec < NSEC_PER_SEC

TsLeq(a, b) ==
  a.tv_sec < b.tv_sec \/ (a.tv_sec = b.tv_sec /\ a.tv_nsec <= b.tv_nsec)

NoTime == Timespec(0, 0)

\* ------------------------------------------------------------------- state

VARIABLES
  gpio_pulse_width_ns,    \* module parameter "width"
  dt_nodes,               \* devices the device tree describes
  init_ret,               \* what pps_gen_gpio_init returned ("none" before)
  driver_registered,      \* platform_driver_register was called
  dev_state,              \* per device: unbound, calibrating, bound, probe_failed
  probe_ret,              \* per device: what probe returned
  gpio_state,             \* per device: free, requested, released
  gpio_value,             \* per device: level last written
  gpio_puts,              \* per device: calls of devm_gpiod_put
  gpio_stale_writes,      \* per device: writes made after the release
  cal_i,                  \* per device: calibration loop counter i
  time_acc,               \* per device: calibration accumulator
  cal_profile,            \* per device: how the clock behaves during calibration
  cal_log,                \* per device: the durations measured so far
  gpio_instr_time,        \* per device: devdata->gpio_instr_time
  first_now,              \* per device: clock reading of pps_gen_first_timer_event
  hrtimer_avg_latency,    \* the file-scope static
  timer,                  \* per device: [state, expires] of devdata->timer
  expires_arg,            \* per device: arguments of the last ktime_set
  cb_pc,                  \* per device: position inside hrtimer_callback
  cb_ret,                 \* per device: what the last callback returned
  time_gpio_assert_ns,    \* per device: callback local
  time_gpio_deassert_ns,  \* per device: callback local
  ts_expire_req,          \* per device: callback local
  ts_expire_real,         \* per device: callback local
  ts1,                    \* per device: callback local
  ts2,                    \* per device: callback local
  ts_assert_end,          \* per device: reading that ended the first busy-wait
  irqs_off,               \* per device: local_irq_save not yet restored
  fire_branch,            \* per device: branch of the current/last firing
  fire_writes,            \* per device: levels written in the current/last firing
  fire_reports,           \* per device: pr_err reports of the current/last firing
  fire_restores,          \* per device: local_irq_restore calls of the current/last firing
  lat_log,                \* latency samples fed to the average, in order
  avg_log,                \* values the average took, in order
  rm_pc,                  \* per device: position inside pps_gen_gpio_remove
  rm_calls,               \* per device: calls of pps_gen_gpio_remove
  fire_budget             \* timer firings still to be explored

modvars == <<gpio_pulse_width_ns, dt_nodes, init_ret, driver_registered>>
devvars == <<dev_state, probe_ret>>
gpiovars == <<gpio_state, gpio_value, gpio_puts, gpio_stale_writes>>
calvars == <<cal_i, time_acc, cal_profile, cal_log, gpio_instr_time, first_now>>
timervars == <<timer, expires_arg>>
cbvars == <<cb_pc, cb_ret, time_gpio_assert_ns, time_gpio_deassert_ns,
            ts_expire_req, ts_expire_real, ts1, ts2, ts_assert_end, irqs_off,
            fire_branch, fire_writes, fire_reports, fire_restores, fire_budget>>
latvars == <<hrtimer_avg_latency, lat_log, avg_log>>
rmvars == <<rm_pc, rm_calls>>

vars == <<modvars, devvars, gpiovars, calvars, timervars, cbvars, latvars, rmvars>>

\* ----------------------------------------------------------- initial state

InitCommon ==
  /\ gpio_pulse_width_ns \in PulseWidths
  /\ init_ret = "none"
  /\ driver_registered = FALSE
  /\ dev_state = [c \in Channels |-> "unbound"]
  /\ probe_ret = [c \in Channels |-> "none"]
  /\ gpio_state = [c \in Channels |-> "free"]
  /\ gpio_value = [c \in Channels |-> PPS_GPIO_LOW]
  /\ gpio_puts = [c \in Channels |-> 0]
  /\ gpio_stale_writes = [c \in Channels |-> 0]
  /\ cal_i = [c \in Channels |-> 0]
  /\ time_acc = [c \in Channels |-> 0]
  /\ cal_profile = [c \in Channels |-> "none"]
  /\ cal_log = [c \in Channels |-> <<>>]
  /\ gpio_instr_time = [c \in Channels |-> 0]
  /\ first_now = [c \in Channels |-> NoTime]
  /\ hrtimer_avg_latency = SAFETY_INTERVAL_NS
  /\ timer = [c \in Channels |-> [state |-> "inactive", expires |-> ktime_set(0, 0)]]
  /\ expires_arg = [c \in Channels |-> [secs |-> 0, nsecs |-> 0]]
  /\ cb_pc = [c \in Channels |-> "idle"]
  /\ cb_ret = [c \in Channels |-> "none"]
  /\ time_gpio_assert_ns = [c \in Channels |-> 0]
  /\ time_gpio_deassert_ns = [c \in Channels |-> 0]
  /\ ts_expire_req = [c \in Channels |-> NoTime]
  /\ ts_expire_real = [c \in Channels |-> NoTime]
  /\ ts1 = [c \in Channels |-> NoTime]
  /\ ts2 = [c \in Channels |-> NoTime]
  /\ ts_assert_end = [c \in Channels |-> NoTime]
  /\ irqs_off = [c \in Channels |-> FALSE]
  /\ fire_branch = [c \in Channels |-> "none"]
  /\ fire_writes = [c \in Channels |-> <<>>]
  /\ fire_reports = [c \in Channels |-> 0]
  /\ fire_restores = [c \in Channels |-> 0]
  /\ lat_log = <<>>
  /\ avg_log = <<>>
  /\ rm_pc = [c \in Channels |-> "idle"]
  /\ rm_calls = [c \in Channels |-> 0]

\* one pps-gen-gpio node in the device tree
OneDevice == {1}

Init ==
  /\ InitCommon
  /\ dt_nodes = OneDevice
  /\ fire_budget = MaxFirings

\* two pps-gen-gpio nodes in the device tree, the default pulse width, and
\* two firings fewer than with one device
InitMulti ==
  /\ InitCommon
  /\ gpio_pulse_width_ns = GPIO_PULSE_WIDTH_DEF_NS
  /\ dt_nodes = {1, 2}
  /\ fire_budget = MaxFirings - 2

\* ------------------------------------------------------------- module init

\* the check with the bound itself rejected
WidthTooLarge_Inclusive(width) == width >= GPIO_PULSE_WIDTH_MAX_NS

\* the check of pps_gen_gpio_init
WidthTooLarge(width) == width > GPIO_PULSE_WIDTH_MAX_NS

pps_gen_gpio_init ==
  /\ init_ret = "none"
  /\ IF WidthTooLarge(gpio_pulse_width_ns)
       THEN /\ init_ret' = "-EINVAL"
            /\ UNCHANGED driver_registered
       ELSE /\ driver_registered' = TRUE
            /\ init_ret' = "0"
  /\ UNCHANGED <<gpio_pulse_width_ns, dt_nodes, devvars, gpiovars, calvars,
                 timervars, cbvars, latvars, rmvars>>

\* ------------------------------------------------------------------- gpio

\* gpiod_set_value on the device's descriptor: the level is written, and a
\* write made after devm_gpiod_put is counted
GpioWrite(ch, level) ==
  /\ gpio_value' = [gpio_value EXCEPT ![ch] = level]
  /\ gpio_stale_writes' =
       [gpio_stale_writes EXCEPT ![ch] = IF gpio_state[ch] = "released" THEN @ + 1 ELSE @]

\* ------------------------------------------------------------------ probe

\* how the clock behaves during one calibration: "steady" measures 250, 300
\* or 350 ns per write; "stepped" is the same with the clock set back by
\* 100 us during iteration 50
CalProfiles == {"steady", "stepped"}

CalDuration(profile, i) ==
  250 + 50 * (i % 3) - (IF profile = "stepped" /\ i = 50 THEN 100000 ELSE 0)

\* the reading before the write in iteration i; late ones make the write
\* cross a second boundary
CalRead(i) == Timespec(100, 999999000 + 10 * i)

\* the probe's failure exits, with the label each jumps to
ProbeFailures ==
  {[ret |-> "-ENOMEM", got_gpio |-> FALSE],
   [ret |-> "-EINVAL", got_gpio |-> FALSE],
   [ret |-> "-PTR_ERR", got_gpio |-> FALSE],
   [ret |-> "-EDIR", got_gpio |-> TRUE]}

\* pps_gen_gpio_probe up to one of its error exits
ProbeFail(ch) ==
  /\ driver_registered
  /\ ch \in dt_nodes
  /\ dev_state[ch] = "unbound"
  /\ \E f \in ProbeFailures :
       /\ probe_ret' = [probe_ret EXCEPT ![ch] = f.ret]
       /\ IF f.got_gpio
            THEN /\ gpio_state' = [gpio_state EXCEPT ![ch] = "released"]
                 /\ gpio_puts' = [gpio_puts EXCEPT ![ch] = @ + 1]
            ELSE UNCHANGED <<gpio_state, gpio_puts>>
  /\ dev_state' = [dev_state EXCEPT ![ch] = "probe_failed"]
  /\ UNCHANGED <<modvars, gpio_value, gpio_stale_writes, calvars, timervars,
                 cbvars, latvars, rmvars>>

\* pps_gen_gpio_probe up to the call of pps_gen_calibrate: the descriptor is
\* got as GPIOD_OUT_LOW and then set to output with value PPS_GPIO_HIGH
ProbeStart(ch) ==
  /\ driver_registered
  /\ ch \in dt_nodes
  /\ dev_state[ch] = "unbound"
  /\ dev_state' = [dev_state EXCEPT ![ch] = "calibrating"]
  /\ gpio_state' = [gpio_state EXCEPT ![ch] = "requested"]
  /\ gpio_value' = [gpio_value EXCEPT ![ch] = PPS_GPIO_HIGH]
  /\ \E p \in CalProfiles : cal_profile' = [cal_profile EXCEPT ![ch] = p]
  /\ cal_i' = [cal_i EXCEPT ![ch] = 0]
  /\ time_acc' = [time_acc EXCEPT ![ch] = 0]
  /\ UNCHANGED <<modvars, probe_ret, gpio_puts, gpio_stale_writes, cal_log,
                 gpio_instr_time, first_now, timervars, cbvars, latvars, rmvars>>

\* the loop condition ending one iteration early
CalibrateMore_OneShort(i) == i < PPS_GEN_CALIBRATE_LOOPS - 1

\* the loop condition of pps_gen_calibrate
CalibrateMore(i) == i < PPS_GEN_CALIBRATE_LOOPS

\* one iteration of the loop of pps_gen_calibrate
CalibrateIter(ch) ==
  /\ dev_state[ch] = "calibrating"
  /\ CalibrateMore(cal_i[ch])
  /\ LET r1 == CalRead(cal_i[ch])
         r2 == TsAddNs(r1, CalDuration(cal_profile[ch], cal_i[ch]))
         ts_delta == TIMESPEC_SUB(r2, r1)
     IN /\ time_acc' = [time_acc EXCEPT ![ch] = @ + TIMESPEC_TO_NS(ts_delta)]
        /\ cal_log' = [cal_log EXCEPT ![ch] = Append(@, TIMESPEC_TO_NS(ts_delta))]
  /\ GpioWrite(ch, PPS_GPIO_LOW)
  /\ cal_i' = [cal_i EXCEPT ![ch] = @ + 1]
  /\ UNCHANGED <<modvars, devvars, gpio_state, gpio_puts, cal_profile,
                 gpio_instr_time, first_now, timervars, cbvars, latvars, rmvars>>

\* the result of pps_gen_calibrate
CalibratedTime(acc) == CDiv(acc, PPS_GEN_CALIBRATE_LOOPS)

\* the first expiry with a single safety interval taken off
pps_gen_first_timer_event_OneSafety(ts, instr) ==
  [secs |-> ts.tv_sec + 1,
   nsecs |-> NSEC_PER_SEC - gpio_pulse_width_ns - instr - SAFETY_INTERVAL_NS]

\* pps_gen_first_timer_event, given its clock reading
pps_gen_first_timer_event(ts, instr) ==
  [secs |-> ts.tv_sec + 1,
   nsecs |-> NSEC_PER_SEC - gpio_pulse_width_ns - instr - 3 * SAFETY_INTERVAL_NS]

\* readings the clock gives pps_gen_first_timer_event
FirstReads == {Timespec(100, 0), Timespec(100, 500000000), Timespec(100, 999999999)}

\* the end of pps_gen_calibrate and the rest of the probe: hrtimer_init,
\* hrtimer_start with the first deadline, return 0
ProbeFinish(ch) ==
  /\ dev_state[ch] = "calibrating"
  /\ ~CalibrateMore(cal_i[ch])
  /\ LET instr == CalibratedTime(time_acc[ch])
     IN /\ gpio_instr_time' = [gpio_instr_time EXCEPT ![ch] = instr]
        /\ \E now \in FirstReads :
             LET e == pps_gen_first_timer_event(now, instr)
             IN /\ first_now' = [first_now EXCEPT ![ch] = now]
                /\ expires_arg' = [expires_arg EXCEPT ![ch] = e]
                /\ timer' = [timer EXCEPT ![ch] =
                               [state |-> "enqueued", expires |-> ktime_set(e.secs, e.nsecs)]]
  /\ dev_state' = [dev_state EXCEPT ![ch] = "bound"]
  /\ probe_ret' = [probe_ret EXCEPT ![ch] = "0"]
  /\ UNCHANGED <<modvars, gpiovars, cal_i, time_acc, cal_profile, cal_log,
                 cbvars, latvars, rmvars>>

\* --------------------------------------------------------------- callback

\* the first test asking for two seconds or more
ClockAhead_TwoSeconds(real, req) == real.tv_sec > req.tv_sec + 1

\* the first test of hrtimer_callback: the wall clock is a second or more
\* past the requested expiry
ClockAhead(real, req) == real.tv_sec > req.tv_sec

\* the second test with a wake exactly at the assert time counted as late
TooLate_Strict(real, req, assert_ns) ==
  req.tv_sec # real.tv_sec \/ real.tv_nsec >= assert_ns

\* the second test: the requested second is not the current one, or the
\* assert time has passed
TooLate(real, req, assert_ns) ==
  req.tv_sec # real.tv_sec \/ real.tv_nsec > assert_ns

\* the loop left one nanosecond before the threshold
BusyWait_OneShort(req, t, threshold_ns) ==
  req.tv_sec = t.tv_sec /\ t.tv_nsec < threshold_ns - 1

\* the condition of both busy loops
BusyWait(req, t, threshold_ns) ==
  req.tv_sec = t.tv_sec /\ t.tv_nsec < threshold_ns

\* the update taking the new measurement alone
InstrTimeUpdate_Replace(instr, t2, t1) == TIMESPEC_TO_NS(TIMESPEC_SUB(t2, t1))

\* the update of devdata->gpio_instr_time from the two readings
InstrTimeUpdate(instr, t2, t1) ==
  CDiv(instr + TIMESPEC_TO_NS(TIMESPEC_SUB(t2, t1)), 2)

\* the update smoothing in both directions
LatencyUpdate_Symmetric(avg, lat) == ThreeQuarterMean(avg, lat)

\* the update of hrtimer_avg_latency
LatencyUpdate(avg, lat) ==
  IF lat > avg THEN lat ELSE ThreeQuarterMean(avg, lat)

\* the clock-ahead exit anchored to the requested second
AheadExpires_RequestedAnchor(real, req, assert_ns, avg) ==
  [secs |-> req.tv_sec + 1, nsecs |-> assert_ns - avg - SAFETY_INTERVAL_NS]

\* the final expiry anchored to the actual second
DoneExpires_ActualAnchor(real, req, assert_ns, avg) ==
  [secs |-> real.tv_sec + 1, nsecs |-> assert_ns - avg - SAFETY_INTERVAL_NS]

\* the expiry set on the clock-ahead exit
AheadExpires(real, req, assert_ns, avg) ==
  [secs |-> real.tv_sec + 1, nsecs |-> assert_ns - avg - SAFETY_INTERVAL_NS]

\* the expiry set at the end of the callback
DoneExpires(real, req, assert_ns, avg) ==
  [secs |-> req.tv_sec + 1, nsecs |-> assert_ns - avg - SAFETY_INTERVAL_NS]

\* the final return not asking for a restart
DoneReturn_NoRestart == "HRTIMER_NORESTART"

\* what the callback returns on its two exits
AheadReturn == "HRTIMER_RESTART"
DoneReturn == "HRTIMER_RESTART"

\* the timer after the callback returned ret with expiry e set: the hrtimer
\* core queues a timer again only when its callback asks for a restart
TimerAfterReturn(ret, e) ==
  [state |-> IF ret = "HRTIMER_RESTART" THEN "enqueued" ELSE "inactive",
   expires |-> ktime_set(e.secs, e.nsecs)]

\* readings the clock gives at the callback's entry: 5, 8 and 20 us after
\* the requested expiry, exactly at the assert time, at the end of the
\* requested second, in the next second, and (the clock set back) 200 us
\* before the requested expiry and in the second before
EntryReads(req, assert_ns) ==
  {t \in {TsAddNs(req, 5000), TsAddNs(req, 8000), TsAddNs(req, 20000),
          TsAddNs(req, -200000),
          Timespec(req.tv_sec, assert_ns),
          Timespec(req.tv_sec, NSEC_PER_SEC - 1),
          Timespec(req.tv_sec + 1, 0),
          Timespec(req.tv_sec - 1, NSEC_PER_SEC - 1)} : TsValid(t)}

\* readings inside a busy loop: just before the threshold, at it, and in the
\* next second; never before the reading from
LoopReads(req, threshold_ns, from) ==
  {t \in {Timespec(req.tv_sec, threshold_ns - 1),
          Timespec(req.tv_sec, threshold_ns),
          Timespec(req.tv_sec + 1, 0)} : TsValid(t) /\ TsLeq(from, t)}

\* the reading after the deassert: 301 ns after the reading that ended the
\* second busy loop
RemeasureReads(t) == {TsAddNs(t, 301)}

\* interrupts staying off on the clock-regression branch only
IrqsOffAfterTests_OnlyAhead(branch) == branch = "ahead"

\* whether interrupts, saved and disabled at the entry, are still off when
\* the two tests are over: only the late branch restores them there
IrqsOffAfterTests(branch) == branch # "late"

\* the timer expires: hrtimer_callback from its entry to the end of its
\* two tests
CallbackEntry(ch) ==
  /\ timer[ch].state = "enqueued"
  /\ fire_budget > 0
  /\ fire_budget' = fire_budget - 1
  /\ first_now' = [first_now EXCEPT ![ch] = NoTime]
  /\ LET deassert_ns == NSEC_PER_SEC - gpio_instr_time[ch]
         assert_ns == deassert_ns - gpio_pulse_width_ns
         req == KTIME_TO_TIMESPEC(timer[ch].expires)
     IN /\ time_gpio_deassert_ns' = [time_gpio_deassert_ns EXCEPT ![ch] = deassert_ns]
        /\ time_gpio_assert_ns' = [time_gpio_assert_ns EXCEPT ![ch] = assert_ns]
        /\ ts_expire_req' = [ts_expire_req EXCEPT ![ch] = req]
        /\ fire_writes' = [fire_writes EXCEPT ![ch] = <<>>]
        /\ \E real \in EntryReads(req, assert_ns) :
             /\ ts_expire_real' = [ts_expire_real EXCEPT ![ch] = real]
             /\ \/ /\ ClockAhead(real, req)
                   /\ LET e == AheadExpires(real, req, assert_ns, hrtimer_avg_latency)
                      IN /\ expires_arg' = [expires_arg EXCEPT ![ch] = e]
                         /\ timer' = [timer EXCEPT ![ch] = TimerAfterReturn(AheadReturn, e)]
                   /\ cb_ret' = [cb_ret EXCEPT ![ch] = AheadReturn]
                   /\ cb_pc' = [cb_pc EXCEPT ![ch] = "idle"]
                   /\ irqs_off' = [irqs_off EXCEPT ![ch] = IrqsOffAfterTests("ahead")]
                   /\ fire_restores' = [fire_restores EXCEPT ![ch] =
                                          IF IrqsOffAfterTests("ahead") THEN 0 ELSE 1]
                   /\ fire_branch' = [fire_branch EXCEPT ![ch] = "ahead"]
                   /\ fire_reports' = [fire_reports EXCEPT ![ch] = 0]
                \/ /\ ~ClockAhead(real, req)
                   /\ TooLate(real, req, assert_ns)
                   /\ timer' = [timer EXCEPT ![ch].state = "running"]
                   /\ cb_pc' = [cb_pc EXCEPT ![ch] = "done"]
                   /\ irqs_off' = [irqs_off EXCEPT ![ch] = IrqsOffAfterTests("late")]
                   /\ fire_restores' = [fire_restores EXCEPT ![ch] =
                                          IF IrqsOffAfterTests("late") THEN 0 ELSE 1]
                   /\ fire_branch' = [fire_branch EXCEPT ![ch] = "late"]
                   /\ fire_reports' = [fire_reports EXCEPT ![ch] = 1]
                   /\ UNCHANGED <<expires_arg, cb_ret>>
                \/ /\ ~ClockAhead(real, req)
                   /\ ~TooLate(real, req, assert_ns)
                   /\ timer' = [timer EXCEPT ![ch].state = "running"]
                   /\ cb_pc' = [cb_pc EXCEPT ![ch] = "wait_assert"]
                   /\ irqs_off' = [irqs_off EXCEPT ![ch] = IrqsOffAfterTests("ontime")]
                   /\ fire_restores' = [fire_restores EXCEPT ![ch] =
                                          IF IrqsOffAfterTests("ontime") THEN 0 ELSE 1]
                   /\ fire_branch' = [fire_branch EXCEPT ![ch] = "ontime"]
                   /\ fire_reports' = [fire_reports EXCEPT ![ch] = 0]
                   /\ UNCHANGED <<expires_arg, cb_ret>>
  /\ UNCHANGED <<modvars, devvars, gpiovars, cal_i, time_acc, cal_profile,
                 cal_log, gpio_instr_time, ts1, ts2, ts_assert_end, latvars, rmvars>>

\* one more turn of the first busy loop
BusyAssertSpin(ch) ==
  /\ cb_pc[ch] = "wait_assert"
  /\ \E t \in LoopReads(ts_expire_req[ch], time_gpio_assert_ns[ch], ts_expire_real[ch]) :
       /\ BusyWait(ts_expire_req[ch], t, time_gpio_assert_ns[ch])
       /\ ts1' = [ts1 EXCEPT ![ch] = t]
  /\ UNCHANGED <<modvars, devvars, gpiovars, calvars, timervars, cb_pc, cb_ret,
                 time_gpio_assert_ns, time_gpio_deassert_ns, ts_expire_req,
                 ts_expire_real, ts2, ts_assert_end, irqs_off, fire_branch,
                 fire_writes, fire_reports, fire_restores,
                 fire_budget, latvars, rmvars>>

\* the first busy loop ends and the GPIO is asserted
BusyAssertExit(ch) ==
  /\ cb_pc[ch] = "wait_assert"
  /\ \E t \in LoopReads(ts_expire_req[ch], time_gpio_assert_ns[ch], ts_expire_real[ch]) :
       /\ ~BusyWait(ts_expire_req[ch], t, time_gpio_assert_ns[ch])
       /\ ts1' = [ts1 EXCEPT ![ch] = t]
       /\ ts_assert_end' = [ts_assert_end EXCEPT ![ch] = t]
  /\ GpioWrite(ch, PPS_GPIO_HIGH)
  /\ fire_writes' = [fire_writes EXCEPT ![ch] = Append(@, PPS_GPIO_HIGH)]
  /\ cb_pc' = [cb_pc EXCEPT ![ch] = "wait_deassert"]
  /\ UNCHANGED <<modvars, devvars, gpio_state, gpio_puts, calvars, timervars,
                 cb_ret, time_gpio_assert_ns, time_gpio_deassert_ns,
                 ts_expire_req, ts_expire_real, ts2, irqs_off, fire_branch,
                 fire_reports, fire_restores,
                 fire_budget, latvars, rmvars>>

\* one more turn of the second busy loop
BusyDeassertSpin(ch) ==
  /\ cb_pc[ch] = "wait_deassert"
  /\ \E t \in LoopReads(ts_expire_req[ch], time_gpio_deassert_ns[ch], ts_assert_end[ch]) :
       /\ BusyWait(ts_expire_req[ch], t, time_gpio_deassert_ns[ch])
       /\ ts1' = [ts1 EXCEPT ![ch] = t]
  /\ UNCHANGED <<modvars, devvars, gpiovars, calvars, timervars, cb_pc, cb_ret,
                 time_gpio_assert_ns, time_gpio_deassert_ns, ts_expire_req,
                 ts_expire_real, ts2, ts_assert_end, irqs_off, fire_branch,
                 fire_writes, fire_reports, fire_restores,
                 fire_budget, latvars, rmvars>>

\* the second busy loop ends and the GPIO is deasserted
BusyDeassertExit(ch) ==
  /\ cb_pc[ch] = "wait_deassert"
  /\ \E t \in LoopReads(ts_expire_req[ch], time_gpio_deassert_ns[ch], ts_assert_end[ch]) :
       /\ ~BusyWait(ts_expire_req[ch], t, time_gpio_deassert_ns[ch])
       /\ ts1' = [ts1 EXCEPT ![ch] = t]
  /\ GpioWrite(ch, PPS_GPIO_LOW)
  /\ fire_writes' = [fire_writes EXCEPT ![ch] = Append(@, PPS_GPIO_LOW)]
  /\ cb_pc' = [cb_pc EXCEPT ![ch] = "remeasure"]
  /\ UNCHANGED <<modvars, devvars, gpio_state, gpio_puts, calvars, timervars,
                 cb_ret, time_gpio_assert_ns, time_gpio_deassert_ns,
                 ts_expire_req, ts_expire_real, ts2, ts_assert_end, irqs_off,
                 fire_branch, fire_reports, fire_restores,
                 fire_budget, latvars, rmvars>>

\* the reading after the deassert, local_irq_restore and the update of the
\* instruction time
Remeasure(ch) ==
  /\ cb_pc[ch] = "remeasure"
  /\ \E t \in RemeasureReads(ts1[ch]) :
       /\ ts2' = [ts2 EXCEPT ![ch] = t]
       /\ gpio_instr_time' =
            [gpio_instr_time EXCEPT ![ch] = InstrTimeUpdate(@, t, ts1[ch])]
  /\ irqs_off' = [irqs_off EXCEPT ![ch] = FALSE]
  /\ fire_restores' = [fire_restores EXCEPT ![ch] = @ + 1]
  /\ cb_pc' = [cb_pc EXCEPT ![ch] = "done"]
  /\ UNCHANGED <<modvars, devvars, gpiovars, cal_i, time_acc, cal_profile,
                 cal_log, first_now, timervars, cb_ret, time_gpio_assert_ns,
                 time_gpio_deassert_ns, ts_expire_req, ts_expire_real, ts1,
                 ts_assert_end, fire_branch, fire_writes, fire_reports, fire_budget,
                 latvars, rmvars>>

\* the assert time recomputed from the instruction time as it is now
DoneAssertTime_Recomputed(ch) ==
  NSEC_PER_SEC - gpio_instr_time[ch] - gpio_pulse_width_ns

\* the assert time the final expiry is computed from: the const local set
\* at the callback's entry
DoneAssertTime(ch) == time_gpio_assert_ns[ch]

\* from the label done to the return: the latency average, the new expiry
CallbackDone(ch) ==
  /\ cb_pc[ch] = "done"
  /\ LET hrtimer_latency ==
           TIMESPEC_TO_NS(TIMESPEC_SUB(ts_expire_real[ch], ts_expire_req[ch]))
         avg == LatencyUpdate(hrtimer_avg_latency, hrtimer_latency)
         e == DoneExpires(ts_expire_real[ch], ts_expire_req[ch],
                          DoneAssertTime(ch), avg)
     IN /\ hrtimer_avg_latency' = avg
        /\ lat_log' = Append(lat_log, hrtimer_latency)
        /\ avg_log' = Append(avg_log, avg)
        /\ expires_arg' = [expires_arg EXCEPT ![ch] = e]
        /\ timer' = [timer EXCEPT ![ch] = TimerAfterReturn(DoneReturn, e)]
  /\ cb_ret' = [cb_ret EXCEPT ![ch] = DoneReturn]
  /\ cb_pc' = [cb_pc EXCEPT ![ch] = "idle"]
  /\ ts1' = [ts1 EXCEPT ![ch] = NoTime]
  /\ ts2' = [ts2 EXCEPT ![ch] = NoTime]
  /\ ts_assert_end' = [ts_assert_end EXCEPT ![ch] = NoTime]
  /\ UNCHANGED <<modvars, devvars, gpiovars, calvars, time_gpio_assert_ns,
                 time_gpio_deassert_ns, ts_expire_req, ts_expire_real, irqs_off,
                 fire_branch, fire_writes, fire_reports, fire_restores,
                 fire_budget, rmvars>>

\* ----------------------------------------------------------------- remove

\* pps_gen_gpio_remove, its first statement: devm_gpiod_put
RemovePut(ch) ==
  /\ dev_state[ch] = "bound"
  /\ rm_pc[ch] \in {"idle", "returned"}
  /\ rm_calls[ch] < MaxRemoveCalls
  /\ rm_calls' = [rm_calls EXCEPT ![ch] = @ + 1]
  /\ gpio_puts' = [gpio_puts EXCEPT ![ch] = @ + 1]
  /\ gpio_state' = [gpio_state EXCEPT ![ch] = "released"]
  /\ rm_pc' = [rm_pc EXCEPT ![ch] = "put_done"]
  /\ UNCHANGED <<modvars, devvars, gpio_value, gpio_stale_writes, calvars,
                 timervars, cbvars, latvars>>

\* pps_gen_gpio_remove, its second statement: hrtimer_cancel, which waits while
\* the callback runs and then takes the timer off the queue
RemoveCancel(ch) ==
  /\ rm_pc[ch] = "put_done"
  /\ timer[ch].state # "running"
  /\ timer' = [timer EXCEPT ![ch].state = "inactive"]
  /\ rm_pc' = [rm_pc EXCEPT ![ch] = "returned"]
  /\ UNCHANGED <<modvars, devvars, gpiovars, calvars, expires_arg, cbvars,
                 latvars, rm_calls>>

\* ------------------------------------------------------------ specification

Next ==
  \/ pps_gen_gpio_init
  \/ \E ch \in Channels :
       \/ ProbeFail(ch)
       \/ ProbeStart(ch)
       \/ CalibrateIter(ch)
       \/ ProbeFinish(ch)
       \/ CallbackEntry(ch)
       \/ BusyAssertSpin(ch)
       \/ BusyAssertExit(ch)
       \/ BusyDeassertSpin(ch)
       \/ BusyDeassertExit(ch)
       \/ Remeasure(ch)
       \/ CallbackDone(ch)
       \/ RemovePut(ch)
       \/ RemoveCancel(ch)

Spec == Init /\ [][Next]_vars

SpecMulti == InitMulti /\ [][Next]_vars

\* the steps of a running callback after its entry
CallbackStep(ch) ==
  \/ BusyAssertExit(ch)
  \/ BusyDeassertExit(ch)
  \/ Remeasure(ch)
  \/ CallbackDone(ch)

\* one device, the default pulse width, and one firing fewer
InitFair ==
  /\ InitCommon
  /\ gpio_pulse_width_ns = GPIO_PULSE_WIDTH_DEF_NS
  /\ dt_nodes = OneDevice
  /\ fire_budget = MaxFirings - 1

\* the callback makes progress while it runs, the busy loops end because the
\* clock advances, and an expired timer is served
FairSpec ==
  /\ InitFair
  /\ [][Next]_vars
  /\ WF_vars(\E ch \in Channels : CallbackStep(ch) \/ CallbackEntry(ch))

\* ------------------------------------------------------------------ claims

\* a firing of device ch has returned (its observations stay until the next)
FiringOver(ch) == cb_pc[ch] = "idle" /\ fire_branch[ch] # "none"

\* hrtimer_cancel has taken the timer of ch off the queue
Cancelled(ch) == rm_pc[ch] = "returned" \/ rm_calls[ch] > 1

\* the wake was in the requested second and not after the assert threshold
WokeOnTime(ch) ==
  /\ ts_expire_real[ch].tv_sec = ts_expire_req[ch].tv_sec
  /\ ts_expire_real[ch].tv_nsec <= time_gpio_assert_ns[ch]

\* the wake passed the clock check and failed the lateness check
WokeLate(ch) ==
  /\ ts_expire_real[ch].tv_sec <= ts_expire_req[ch].tv_sec
  /\ \/ ts_expire_req[ch].tv_sec # ts_expire_real[ch].tv_sec
     \/ ts_expire_real[ch].tv_nsec > time_gpio_assert_ns[ch]

\* the wall clock was a second or more past the requested expiry
WokeAhead(ch) == ts_expire_real[ch].tv_sec > ts_expire_req[ch].tv_sec

C4_CancelBeforeRelease ==
  \A ch \in Channels :
    /\ gpio_state[ch] = "released" => (timer[ch].state = "inactive" /\ cb_pc[ch] = "idle")
    /\ gpio_stale_writes[ch] = 0

\* C5: a second call of remove does not release the output again
C5_SecondStopNoOp ==
  \A ch \in Channels : rm_calls[ch] >= 2 => gpio_puts[ch] <= 1

\* C6: init returns 0 and registers the driver for every width up to
\* 100000, and returns -EINVAL with nothing registered or armed above it
C6_WidthBound ==
  init_ret # "none" =>
    /\ (gpio_pulse_width_ns >= 0 /\ gpio_pulse_width_ns <= 100000) =>
         (init_ret = "0" /\ driver_registered)
    /\ gpio_pulse_width_ns > 100000 =>
         /\ init_ret = "-EINVAL"
         /\ ~driver_registered
         /\ \A ch \in Channels :
              timer[ch].state = "inactive" /\ dev_state[ch] = "unbound"

C6_Witness ==
  /\ gpio_pulse_width_ns = 100000
  /\ init_ret = "0"
  /\ \E ch \in Channels : timer[ch].state = "enqueued"

\* r is the quotient of 3 * a + l by 4 truncated toward zero: the remainder
\* 3 * a + l - 4 * r is below 4 in size and has the sign of the quotient
IsThreeQuarterMean(a, l, r) ==
  LET d == 3 * (a - r) + (l - r)
  IN /\ d >= -3 /\ d <= 3
     /\ r > 0 => d >= 0
     /\ r < 0 => d <= 0

\* the estimate before the i-th sample
AvgBefore(i) == IF i = 1 THEN 10000 ELSE avg_log[i - 1]

\* C7: every latency update sets the average to the sample when the sample
\* is larger and to (3 * avg + sample) / 4 otherwise; from 10000 the samples
\* 5000, 20000, 8000 give 8750, 20000, 17000
C7_LatencyRule ==
  /\ Len(avg_log) = Len(lat_log)
  /\ \A i \in 1..Len(avg_log) :
       IF lat_log[i] > AvgBefore(i)
         THEN avg_log[i] = lat_log[i]
         ELSE IsThreeQuarterMean(AvgBefore(i), lat_log[i], avg_log[i])
  /\ Len(avg_log) >= 1 => hrtimer_avg_latency = avg_log[Len(avg_log)]
  /\ (Len(lat_log) >= 1 /\ SubSeq(lat_log, 1, 1) = <<5000>>) =>
       SubSeq(avg_log, 1, 1) = <<8750>>
  /\ (Len(lat_log) >= 2 /\ SubSeq(lat_log, 1, 2) = <<5000, 20000>>) =>
       SubSeq(avg_log, 1, 2) = <<8750, 20000>>
  /\ (Len(lat_log) >= 3 /\ SubSeq(lat_log, 1, 3) = <<5000, 20000, 8000>>) =>
       SubSeq(avg_log, 1, 3) = <<8750, 20000, 17000>>

C7_Witness ==
  /\ lat_log = <<5000, 20000, 8000>>
  /\ avg_log = <<8750, 20000, 17000>>
  /\ hrtimer_avg_latency = 17000

RECURSIVE SeqSum(_)
SeqSum(q) == IF q = <<>> THEN 0 ELSE Head(q) + SeqSum(Tail(q))

\* m is the quotient of s by n truncated toward zero
IsMean(m, s, n) ==
  LET d == s - n * m
  IN IF s >= 0 THEN d >= 0 /\ d < n ELSE d <= 0 /\ d > -n

\* the calibration of device ch is over and no firing has touched its result
JustCalibrated(ch) == dev_state[ch] = "bound" /\ fire_branch[ch] = "none"

\* C8: after calibration the instruction time is the mean of the 100
\* durations, each the time the clock moved across one write, and the
\* output is LOW
C8_CalibrationMean ==
  \A ch \in Channels :
    JustCalibrated(ch) =>
      /\ Len(cal_log[ch]) = 100
      /\ \A i \in 1..100 : cal_log[ch][i] = CalDuration(cal_profile[ch], i - 1)
      /\ IsMean(gpio_instr_time[ch], SeqSum(cal_log[ch]), 100)
      /\ gpio_value[ch] = PPS_GPIO_LOW

C8_Witness ==
  \E ch \in Channels :
    /\ JustCalibrated(ch)
    /\ cal_profile[ch] = "steady"
    /\ SeqSum(cal_log[ch]) = 29950
    /\ gpio_instr_time[ch] = 299

\* the latency estimate the callback of device ch reads and writes
AvgLatencyOf(ch) == hrtimer_avg_latency

\* C9: the return of one device's callback leaves the latency estimate of
\* every other bound device as it was
C9_PrivateLatency ==
  [][\A ch \in Channels : \A other \in Channels \ {ch} :
       (cb_pc[ch] = "done" /\ cb_pc'[ch] = "idle" /\ dev_state[other] = "bound") =>
         AvgLatencyOf(other)' = AvgLatencyOf(other)]_vars

\* C10: a firing that has returned asked for a restart and left the timer
\* queued (until remove cancels it), and a firing that runs returns with the
\* timer queued again
C10_ScheduleGoesOn ==
  /\ [](\A ch \in Channels :
          FiringOver(ch) =>
            /\ cb_ret[ch] = "HRTIMER_RESTART"
            /\ timer[ch].state = "enqueued" \/ Cancelled(ch))
  /\ \A ch \in OneDevice :
       (cb_pc[ch] # "idle") ~> (cb_pc[ch] = "idle" /\ timer[ch].state = "enqueued")

C10_Witness ==
  \E ch \in Channels :
    /\ FiringOver(ch)
    /\ fire_budget = 0
    /\ timer[ch].state = "enqueued"
    /\ rm_calls[ch] = 0

\* the instruction time the firing of ch read at its entry
InstrTimeAtEntry(ch) == NSEC_PER_SEC - time_gpio_deassert_ns[ch]

\* the firing of ch went through the label done and has returned
ReachedDone(ch) == FiringOver(ch) /\ fire_branch[ch] \in {"ontime", "late"}

Elapsed(a, b) == (a.tv_sec - b.tv_sec) * NSEC_PER_SEC + (a.tv_nsec - b.tv_nsec)

\* the on-time firing of ch has updated the instruction time and not yet
\* left the callback: its readings are still in the locals
Remeasured(ch) == cb_pc[ch] = "done" /\ fire_branch[ch] = "ontime"

\* C12 (as stated): on the on-time path the instruction time becomes
\* (old + measured) / 2 with measured the time from the end of the first
\* (assert) busy-wait to the end of the second (deassert) busy-wait
C12_MeasuredBetweenWaits ==
  \A ch \in Channels :
    Remeasured(ch) =>
      IsMean(gpio_instr_time[ch],
             InstrTimeAtEntry(ch) + Elapsed(ts1[ch], ts_assert_end[ch]), 2)

\* C12 (amended): on the on-time path the instruction time becomes
\* (old + measured) / 2 with measured the time from the reading that ended
\* the second (deassert) busy-wait to the reading taken after the LOW write
C12_MeasuredAcrossLowWrite ==
  \A ch \in Channels :
    Remeasured(ch) =>
      IsMean(gpio_instr_time[ch],
             InstrTimeAtEntry(ch) + Elapsed(ts2[ch], ts1[ch]), 2)

C12_Witness ==
  \E ch \in Channels :
    /\ Remeasured(ch)
    /\ ts_assert_end[ch] = Timespec(ts_expire_req[ch].tv_sec, time_gpio_assert_ns[ch])
    /\ ts1[ch] = Timespec(ts_expire_req[ch].tv_sec, time_gpio_deassert_ns[ch])
    /\ Elapsed(ts1[ch], ts_assert_end[ch]) = gpio_pulse_width_ns
    /\ Elapsed(ts2[ch], ts1[ch]) = 301
    /\ InstrTimeAtEntry(ch) = 299 /\ gpio_instr_time[ch] = 300

\* the on-time firing of ch is inside its timing-critical part: in a busy
\* loop (the next step reads the clock, and writes when the loop ends) or
\* before the reading that follows the LOW write
InCriticalPart(ch) ==
  /\ fire_branch[ch] = "ontime"
  /\ cb_pc[ch] \in {"wait_assert", "wait_deassert", "remeasure"}

\* C13: in an on-time firing both busy-waits, both writes and the reading
\* after the LOW write are made with interrupts off and before any
\* local_irq_restore; the first restore is the one that follows that reading
C13_CriticalPartIrqsOff ==
  \A ch \in Channels :
    /\ InCriticalPart(ch) => (irqs_off[ch] /\ fire_restores[ch] = 0)
    /\ Remeasured(ch) => (~irqs_off[ch] /\ fire_restores[ch] = 1)

C13_Witness ==
  \E ch \in Channels :
    /\ InCriticalPart(ch) /\ cb_pc[ch] = "remeasure"
    /\ fire_writes[ch] = <<PPS_GPIO_HIGH, PPS_GPIO_LOW>>
    /\ irqs_off[ch] /\ fire_restores[ch] = 0

\* HIGH has been written in the on-time firing of ch, which has not returned
AssertDone(ch) ==
  /\ fire_branch[ch] = "ontime"
  /\ cb_pc[ch] \in {"wait_deassert", "remeasure", "done"}

\* LOW has been written in the on-time firing of ch, which has not returned
DeassertDone(ch) ==
  /\ fire_branch[ch] = "ontime"
  /\ cb_pc[ch] \in {"remeasure", "done"}

\* the writes of an on-time firing come in the order HIGH, LOW
HighBeforeLow(ch) ==
  /\ InCriticalPart(ch) /\ cb_pc[ch] = "wait_assert" => fire_writes[ch] = <<>>
  /\ AssertDone(ch) /\ ~DeassertDone(ch) => fire_writes[ch] = <<PPS_GPIO_HIGH>>
  /\ DeassertDone(ch) => fire_writes[ch] = <<PPS_GPIO_HIGH, PPS_GPIO_LOW>>

\* C14 (as stated): on the on-time path HIGH is written only after a clock
\* reading in the requested second at or past the assert threshold, LOW only
\* after a later reading in the requested second at or past the deassert
\* threshold, and HIGH is written before LOW
C14_WritesPastThreshold ==
  \A ch \in Channels :
    /\ AssertDone(ch) =>
         /\ ts_assert_end[ch].tv_sec = ts_expire_req[ch].tv_sec
         /\ ts_assert_end[ch].tv_nsec >= time_gpio_assert_ns[ch]
    /\ DeassertDone(ch) =>
         /\ ts1[ch].tv_sec = ts_expire_req[ch].tv_sec
         /\ ts1[ch].tv_nsec >= NSEC_PER_SEC - InstrTimeAtEntry(ch)
    /\ HighBeforeLow(ch)

\* C14 (amended): on the on-time path HIGH is written only after a clock
\* reading that is at or past the assert threshold or not in the requested
\* second, LOW only after a later reading that is at or past the deassert
\* threshold or not in the requested second, and HIGH is written before LOW
C14_WritesPastThresholdOrSecond ==
  \A ch \in Channels :
    /\ AssertDone(ch) =>
         \/ ts_assert_end[ch].tv_sec # ts_expire_req[ch].tv_sec
         \/ ts_assert_end[ch].tv_nsec >= time_gpio_assert_ns[ch]
    /\ DeassertDone(ch) =>
         \/ ts1[ch].tv_sec # ts_expire_req[ch].tv_sec
         \/ ts1[ch].tv_nsec >= NSEC_PER_SEC - InstrTimeAtEntry(ch)
    /\ HighBeforeLow(ch)

C14_Witness ==
  \E ch \in Channels :
    /\ DeassertDone(ch) /\ cb_pc[ch] = "remeasure"
    /\ InstrTimeAtEntry(ch) = 299
    /\ ts_assert_end[ch] = Timespec(ts_expire_req[ch].tv_sec, time_gpio_assert_ns[ch])
    /\ ts1[ch] = Timespec(ts_expire_req[ch].tv_sec + 1, 0)
    /\ fire_writes[ch] = <<PPS_GPIO_HIGH, PPS_GPIO_LOW>>

\* this step is a step of the callback of ch: its entry or a later one
FiringStep(ch) ==
  \/ cb_pc[ch] # "idle"
  \/ timer[ch].state = "enqueued" /\ fire_budget' # fire_budget

\* C15: no step of a firing that found the clock in a later second than the
\* requested one changes the instruction time or the latency estimate
C15_ClockAheadKeepsEstimates ==
  [][\A ch \in Channels :
       (FiringStep(ch) /\ WokeAhead(ch)') =>
         /\ gpio_instr_time'[ch] = gpio_instr_time[ch]
         /\ hrtimer_avg_latency' = hrtimer_avg_latency
         /\ lat_log' = lat_log]_vars

C15_Witness ==
  \E ch \in Channels :
    /\ FiringOver(ch) /\ WokeAhead(ch) /\ fire_branch[ch] = "ahead"
    /\ lat_log = <<5000>>
    /\ hrtimer_avg_latency = 8750
    /\ gpio_instr_time[ch] = 300

\* C16: the instruction time of every device is never negative, after the
\* calibration and after every firing, whatever the wall clock returns
C16_InstrTimeNonNegative ==
  \A ch \in Channels : gpio_instr_time[ch] >= 0

\* C17: a negative latency sample moves the estimate as a sample of 0 would,
\* and the estimate is never negative
C17_LatencyFloored ==
  /\ hrtimer_avg_latency >= 0
  /\ \A i \in 1..Len(avg_log) :
       /\ avg_log[i] >= 0
       /\ lat_log[i] < 0 => IsThreeQuarterMean(AvgBefore(i), 0, avg_log[i])

\* the timer of ch is armed with its first expiry and has not fired yet
FirstArmed(ch) == dev_state[ch] = "bound" /\ first_now[ch] # NoTime

\* the first expiry of ch is the one the formula gives
FirstDeadlineFormula(ch) ==
  /\ expires_arg[ch].secs = first_now[ch].tv_sec + 1
  /\ expires_arg[ch].nsecs =
       NSEC_PER_SEC - gpio_pulse_width_ns - gpio_instr_time[ch]
         - 3 * SAFETY_INTERVAL_NS
  /\ timer[ch].expires = ktime_set(expires_arg[ch].secs, expires_arg[ch].nsecs)

\* nanoseconds from the reading now of ch to its first expiry
FirstDelay(ch) == NSEC_PER_SEC + (expires_arg[ch].nsecs - first_now[ch].tv_nsec)

C19_IrqsRestoredAtReturn ==
  \A ch \in Channels :
    FiringOver(ch) => (~irqs_off[ch] /\ fire_restores[ch] = 1)

\* C20: the deadline a firing arms has a seconds field above the seconds of
\* the deadline the firing was requested for, the requested second of a
\* firing is above the requested second of the firing before it, and a
\* firing writes at most one HIGH/LOW pair: at most one pulse per requested
\* second
C20_OnePulsePerSecond ==
  [][\A ch \in Channels :
       /\ FiringOver(ch)' => expires_arg'[ch].secs > ts_expire_req'[ch].tv_sec
       /\ (FiringOver(ch) /\ FiringStep(ch)) =>
            ts_expire_req'[ch].tv_sec > ts_expire_req[ch].tv_sec
       /\ fire_writes'[ch] \in {<<>>, <<PPS_GPIO_HIGH>>,
                                <<PPS_GPIO_HIGH, PPS_GPIO_LOW>>}]_vars

====
